---- MODULE Spec2Model ----
(***************************************************************************)
(* A model of loa-scraper (src/src/main.rs): the catalogue page is fetched, *)
(* parse_volumes turns its listing fragments into records, main filters    *)
(* them by the start/end range, looks up a Wikipedia link per record and   *)
(* serializes one CSV row per record under a fixed pacing policy.          *)
(*                                                                         *)
(* Strings are TLA+ strings; Rust's str methods are operators over them.   *)
(* Option<T> is a sequence of length 0 (None) or 1 (Some).                 *)
(***************************************************************************)
EXTENDS Integers, Sequences, FiniteSets, TLC

VARIABLES args, page, pc, fetch, html, volumes_data, filtered_volumes, i,
          lookup, sink, log

vars == <<args, page, pc, fetch, html, volumes_data, filtered_volumes, i,
          lookup, sink, log>>

(***************************************************************************)
(* Bounds of the model.                                                    *)
(***************************************************************************)
\* longest document built freely from the core fragments
MaxFrags == 2
\* largest start / end argument tried
MaxArg == 2
\* longest document of consecutively numbered entries (pacing)
MaxPaced == 21

(***************************************************************************)
(* Program constants.                                                      *)
(***************************************************************************)
\* u32::MAX, as its decimal digits (TLC's integers are narrower than u32)
U32MaxDigits == "4294967295"
DefaultStart == 1
LongPauseEvery == 10
LongPauseMs == 500
ShortPauseMs == 100
UrlsIndex == 3

None == <<>>
Some(v) == <<v>>

(***************************************************************************)
(* str helpers.                                                            *)
(***************************************************************************)
CharAt(s, k) == SubSeq(s, k, k)

From(s, k) == SubSeq(s, k, Len(s))

WhiteSpace == {" ", "\t", "\n"}

Upper == {"A", "B", "C", "D", "E", "F", "G", "H", "I", "J", "K", "L", "M",
          "N", "O", "P", "Q", "R", "S", "T", "U", "V", "W", "X", "Y", "Z"}

Lower == {"a", "b", "c", "d", "e", "f", "g", "h", "i", "j", "k", "l", "m",
          "n", "o", "p", "q", "r", "s", "t", "u", "v", "w", "x", "y", "z"}

Digits == <<"0", "1", "2", "3", "4", "5", "6", "7", "8", "9">>

IsDigit(c) == \E d \in 1..10 : Digits[d] = c

DigitVal(c) == (CHOOSE d \in 1..10 : Digits[d] = c) - 1

\* str::trim
Trim(s) ==
    LET keep == {k \in 1..Len(s) : CharAt(s, k) \notin WhiteSpace}
    IN  IF keep = {} THEN ""
        ELSE SubSeq(s, CHOOSE a \in keep : \A b \in keep : a <= b,
                       CHOOSE a \in keep : \A b \in keep : a >= b)

\* str::find(char): Some(1-based position of the first occurrence) or None
Find(s, c) ==
    LET hits == {k \in 1..Len(s) : CharAt(s, k) = c}
    IN  IF hits = {} THEN None
        ELSE Some(CHOOSE a \in hits : \A b \in hits : a <= b)

\* str::starts_with
StartsWith(s, p) == Len(p) <= Len(s) /\ SubSeq(s, 1, Len(p)) = p

\* str::contains
Contains(s, p) ==
    \E k \in 1..(Len(s) - Len(p) + 1) : SubSeq(s, k, k + Len(p) - 1) = p

\* str::split_whitespace().collect(): the maximal runs of non-whitespace
RECURSIVE SplitWhitespace(_)
SplitWhitespace(s) ==
    IF s = "" THEN <<>>
    ELSE IF Head(s) \in WhiteSpace THEN SplitWhitespace(Tail(s))
    ELSE LET stops == {k \in 1..Len(s) : CharAt(s, k) \in WhiteSpace}
             stop == IF stops = {} THEN Len(s) + 1
                     ELSE CHOOSE a \in stops : \A b \in stops : a <= b
         IN  <<SubSeq(s, 1, stop - 1)>> \o SplitWhitespace(From(s, stop))

\* word.chars().next().is_some_and(|c| c.is_uppercase())
StartsUpper(w) == w # "" /\ Head(w) \in Upper

\* text.chars().any(|c| c.is_lowercase())
AnyLower(s) == \E k \in 1..Len(s) : CharAt(s, k) \in Lower

\* the digits of s read as a decimal number
RECURSIVE DecimalValue(_)
DecimalValue(s) ==
    IF s = "" THEN 0
    ELSE 10 * DecimalValue(SubSeq(s, 1, Len(s) - 1)) + DigitVal(CharAt(s, Len(s)))

\* the digits without their leading zeros
RECURSIVE StripZeros(_)
StripZeros(s) == IF s # "" /\ Head(s) = "0" THEN StripZeros(Tail(s)) ELSE s

\* a <= b for two digit strings of the same length
RECURSIVE DigitsLE(_, _)
DigitsLE(a, b) ==
    IF a = "" THEN TRUE
    ELSE IF DigitVal(Head(a)) # DigitVal(Head(b))
         THEN DigitVal(Head(a)) < DigitVal(Head(b))
         ELSE DigitsLE(Tail(a), Tail(b))

\* the number read from the digits fits 32 bits without sign
FitsU32(s) ==
    LET d == StripZeros(s)
    IN  \/ Len(d) < Len(U32MaxDigits)
        \/ Len(d) = Len(U32MaxDigits) /\ DigitsLE(d, U32MaxDigits)

\* str::parse::<u32>().unwrap_or(0): an optional '+', then one or more
\* digits, the value fitting 32 bits; anything else is an Err, hence 0
ParseU32OrZero(s) ==
    LET body == IF s # "" /\ Head(s) = "+" THEN Tail(s) ELSE s
    IN  IF body = "" \/ \E k \in 1..Len(body) : ~IsDigit(CharAt(body, k)) THEN 0
        ELSE IF ~FitsU32(body) THEN 0
        ELSE DecimalValue(body)

(***************************************************************************)
(* is_likely_author                                                        *)
(***************************************************************************)
non_author_patterns ==
    <<"The American Short Story", "The Best American", "American Poetry",
      "Collected Works", "Complete Works", "Selected Works", "Early Works",
      "Later Works", "Writings", "Letters", "Speeches", "Documents",
      "Chronicles", "Anthology", "Collection">>

two_word_patterns == <<"War", "American", "New ", "Old ">>

\* a faulty variant: a name needs three words or more
IsLikelyAuthorThreeWords(text) ==
    LET words == SplitWhitespace(text)
    IN  IF StartsWith(text, "The ") THEN FALSE
        ELSE IF \E p \in 1..Len(non_author_patterns) :
                    Contains(text, non_author_patterns[p]) THEN FALSE
        ELSE IF Len(words) = 1 THEN AnyLower(text)
        ELSE IF Len(words) >= 3
                /\ StartsUpper(words[1]) /\ StartsUpper(words[Len(words)])
             THEN TRUE
        ELSE FALSE

IsLikelyAuthor(text) ==
    LET words == SplitWhitespace(text)
    IN  IF StartsWith(text, "The ") THEN FALSE
        ELSE IF \E p \in 1..Len(non_author_patterns) :
                    Contains(text, non_author_patterns[p]) THEN FALSE
        ELSE IF Len(words) = 1 THEN AnyLower(text)
        ELSE IF Len(words) >= 2
                /\ StartsUpper(words[1]) /\ StartsUpper(words[Len(words)])
             THEN IF Len(words) = 2
                     /\ \E p \in 1..Len(two_word_patterns) :
                            Contains(text, two_word_patterns[p])
                  THEN FALSE
                  ELSE TRUE
        ELSE FALSE

(***************************************************************************)
(* parse_volumes                                                           *)
(***************************************************************************)
\* the (author, book_title) split of a trimmed title text
SplitTitle(title_text) ==
    LET colon_pos == Find(title_text, ":")
    IN  IF colon_pos # None
        THEN LET before_colon == Trim(SubSeq(title_text, 1, colon_pos[1] - 1))
                 after_colon == Trim(From(title_text, colon_pos[1] + 1))
             IN  IF IsLikelyAuthor(before_colon)
                 THEN [author |-> before_colon, book_title |-> after_colon]
                 ELSE [author |-> "", book_title |-> title_text]
        ELSE [author |-> "", book_title |-> title_text]

\* a faulty variant: a volume number of zero is kept
ParseFragmentKeepZero(el) ==
    IF el.link # None /\ el.number # None /\ el.title # None
    THEN LET href == IF el.link[1] # None THEN el.link[1][1] ELSE ""
             volume_number == ParseU32OrZero(Trim(el.number[1]))
             title_text == Trim(el.title[1])
         IN  IF volume_number >= 0
             THEN <<[volume_number |-> volume_number,
                     title |-> SplitTitle(title_text).book_title,
                     author |-> SplitTitle(title_text).author,
                     loa_link |-> href,
                     original_name |-> title_text]>>
             ELSE <<>>
    ELSE <<>>

\* one iteration of the loop over the book listings: the records pushed
\* for one li element (none or one)
ParseFragment(el) ==
    IF el.link # None /\ el.number # None /\ el.title # None
    THEN LET href == IF el.link[1] # None THEN el.link[1][1] ELSE ""
             volume_number == ParseU32OrZero(Trim(el.number[1]))
             title_text == Trim(el.title[1])
         IN  IF volume_number > 0
             THEN <<[volume_number |-> volume_number,
                     title |-> SplitTitle(title_text).book_title,
                     author |-> SplitTitle(title_text).author,
                     loa_link |-> href,
                     original_name |-> title_text]>>
             ELSE <<>>
    ELSE <<>>

\* a faulty variant: the records stay in document order
UnsortedByKey(vs) == vs

\* volumes.sort_by_key(|v| v.0): a stable sort, by insertion
RECURSIVE SortByKey(_)
SortByKey(vs) ==
    IF vs = <<>> THEN <<>>
    ELSE LET front == SortByKey(SubSeq(vs, 1, Len(vs) - 1))
             v == vs[Len(vs)]
             le == {k \in 1..Len(front) : front[k].volume_number <= v.volume_number}
             at == IF le = {} THEN 0 ELSE CHOOSE a \in le : \A b \in le : a >= b
         IN  SubSeq(front, 1, at) \o <<v>> \o SubSeq(front, at + 1, Len(front))

RECURSIVE PushAll(_)
PushAll(doc) ==
    IF doc = <<>> THEN <<>>
    ELSE PushAll(SubSeq(doc, 1, Len(doc) - 1)) \o ParseFragment(doc[Len(doc)])

ParseVolumes(doc) == SortByKey(PushAll(doc))

(***************************************************************************)
(* The documents the catalogue URL can serve.  A document is the sequence  *)
(* of its li.content-listing--book elements; of each, the first a element  *)
(* (with its href attribute, if any), the text of the number element and   *)
(* the text of the title element, each of which can be missing.            *)
(***************************************************************************)
Frag(h, n, t) == [link |-> Some(h), number |-> Some(n), title |-> Some(t)]

TwainLabel == "Mark Twain: The Adventures of Tom Sawyer"

CoreFragments ==
    { Frag(Some("/books/1"), "1", TwainLabel),
      Frag(Some("/books/2"), "2", "The American Short Story: Volume One"),
      Frag(None, " 2\n", "Unknown: Poems"),
      Frag(Some(""), "3", "Mark Twain:"),
      Frag(Some("/books/4"), "1", ""),
      Frag(Some("/books/0"), "0", "Herman Melville: Moby-Dick"),
      [link |-> None, number |-> Some("3"), title |-> Some("Henry James: Novels")] }

RECURSIVE SeqsUpTo(_, _)
SeqsUpTo(S, n) ==
    IF n = 0 THEN {<<>>}
    ELSE LET shorter == SeqsUpTo(S, n - 1)
         IN  shorter \cup {Append(q, x) : q \in shorter, x \in S}

CoreDocs == SeqsUpTo(CoreFragments, MaxFrags)

NumberLabels ==
    {"1", "2", " 3 ", "+2", "007", "0", "00", "abc", "", "+", "-1", "1 2",
     "2x", "4294967296", "99999999999"}

Candidates ==
    {"Mark Twain", "The Federalist", "The American Short Story", "Civil War",
     "New England", "Old Glory", "Collected Works", "Thomas Paine Writings",
     "Unknown", "POEMS", "Aristotle", "Mark twain", "mark Twain",
     "Henry David Thoreau", "Edith  Wharton", "W. E. B. Du Bois", ""}

Separators == {":", ": ", " : "}

Remainders ==
    {"", " ", "Poems", "The Adventures of Tom Sawyer", "Volume One",
     "Novels: 1886"}

Labels ==
    {c \o sep \o r : c \in Candidates, sep \in Separators, r \in Remainders}
    \cup Candidates
    \cup {" " \o c \o ": Poems\n" : c \in Candidates}

LabelDocs ==
    {<<Frag(Some("/books/1"), n, TwainLabel)>> : n \in NumberLabels}
    \cup {<<[link |-> Some(None), number |-> None, title |-> Some(TwainLabel)]>>,
           <<[link |-> Some(None), number |-> Some("3"), title |-> None]>>}
    \cup {<<Frag(Some("/books/1"), "1", t)>> : t \in Labels}

\* the decimal digits of a natural number
RECURSIVE NumStr(_)
NumStr(k) ==
    IF k < 10 THEN Digits[k + 1] ELSE NumStr(k \div 10) \o Digits[(k % 10) + 1]

\* a catalogue of n consecutively numbered volumes, two of them by an
\* author on either side of the tenth record
PacedFragment(k) ==
    Frag(Some("/books/" \o NumStr(k)), NumStr(k),
         IF k = LongPauseEvery THEN "Henry James: Novels"
         ELSE IF k = LongPauseEvery + 1 THEN TwainLabel
         ELSE "American Poetry: Volume " \o NumStr(k))

PacedDocs == {[k \in 1..n |-> PacedFragment(k)] : n \in 0..MaxPaced}

Docs == CoreDocs \cup LabelDocs \cup PacedDocs

OptArgs == {None} \cup {Some(n) : n \in 0..MaxArg}

Args == [start : OptArgs, end : OptArgs, output : {None, Some("volumes.csv")}]

(***************************************************************************)
(* The responses of the two servers.                                       *)
(***************************************************************************)
\* client.get(url).send() then response.text(): the request fails, or a
\* response of some status arrives and reading its body fails or succeeds.
\* send() is Ok for a response of any status.
FetchResponses ==
    {[kind |-> "send_err", status |-> 0]}
    \cup [kind : {"text_err", "body"}, status : {200, 404}]

JNull == [t |-> "null", s |-> "", a |-> <<>>]
JStr(x) == [t |-> "string", s |-> x, a |-> <<>>]
JArr(xs) == [t |-> "array", s |-> "", a |-> xs]
JObj == [t |-> "object", s |-> "", a |-> <<>>]

Url == "https://en.wikipedia.org/wiki/Mark_Twain"

JsonValues ==
    {JNull, JObj, JStr(Url), JArr(<<>>),
     JArr(<<JStr("q"), JArr(<<>>), JArr(<<>>)>>)}
    \cup {JArr(<<JStr("q"), JArr(<<>>), JArr(<<>>), u>>) :
            u \in {JNull, JStr(Url), JObj, JArr(<<>>), JArr(<<JNull>>),
                   JArr(<<JStr("")>>), JArr(<<JStr(Url)>>),
                   JArr(<<JStr(Url), JStr("https://example.org/")>>),
                   JArr(<<JArr(<<JStr(Url)>>)>>)}}
    \cup {JArr(<<JStr("q"), JArr(<<>>), JArr(<<>>), JArr(<<JStr(Url)>>), JNull>>)}

\* the body of a lookup response: whether it is blank (text.trim() is
\* empty) and what serde_json::from_str makes of it (None: an Err)
Texts ==
    {[blank |-> TRUE, json |-> None], [blank |-> FALSE, json |-> None]}
    \cup {[blank |-> FALSE, json |-> Some(v)] : v \in JsonValues}

NoText == [blank |-> TRUE, json |-> None]

LookupResponses ==
    {[kind |-> "send_err", text |-> NoText], [kind |-> "text_err", text |-> NoText]}
    \cup {[kind |-> "text", text |-> x] : x \in Texts}

(***************************************************************************)
(* get_wikipedia_link                                                      *)
(***************************************************************************)
Ok(v) == [ok |-> TRUE, val |-> v]
Err == [ok |-> FALSE, val |-> ""]

\* Result<String>::unwrap_or_default
UnwrapOrDefault(r) == IF r.ok THEN r.val ELSE ""

\* serde_json::Value::get(index): an element of an array, else None
JsonGet(j, index) ==
    IF j.t = "array" /\ Len(j.a) > index THEN Some(j.a[index + 1]) ELSE None

\* the url taken from a decoded body, or "" when there is none to take
FirstUrl(json) ==
    LET v == JsonGet(json, UrlsIndex)
        urls == IF v # None /\ v[1].t = "array" THEN Some(v[1].a) ELSE None
        first == IF urls # None /\ Len(urls[1]) > 0 THEN Some(urls[1][1]) ELSE None
        url == IF first # None /\ first[1].t = "string" THEN Some(first[1].s) ELSE None
    IN  IF url # None /\ url[1] # "" THEN url[1] ELSE ""

\* a faulty variant: a failed request is propagated with `?`
GetWikipediaLinkPropagates(author, resp) ==
    IF author = "" \/ author = "Unknown"
    THEN [requested |-> FALSE, result |-> Ok("")]
    ELSE [requested |-> TRUE,
          result |->
            IF resp.kind = "send_err" THEN Err
            ELSE IF resp.kind = "text_err" THEN Ok("")
            ELSE IF resp.text.blank THEN Ok("")
            ELSE IF resp.text.json = None THEN Ok("")
            ELSE Ok(FirstUrl(resp.text.json[1]))]

\* a faulty variant: no early return for an empty or "Unknown" author
GetWikipediaLinkNoGuard(author, resp) ==
    [requested |-> TRUE,
     result |->
       IF resp.kind = "send_err" THEN Ok("")
       ELSE IF resp.kind = "text_err" THEN Ok("")
       ELSE IF resp.text.blank THEN Ok("")
       ELSE IF resp.text.json = None THEN Ok("")
       ELSE Ok(FirstUrl(resp.text.json[1]))]

\* whether a request is sent, and the Result returned, when the server
\* answers resp
GetWikipediaLink(author, resp) ==
    IF author = "" \/ author = "Unknown"
    THEN [requested |-> FALSE, result |-> Ok("")]
    ELSE [requested |-> TRUE,
          result |->
            IF resp.kind = "send_err" THEN Ok("")
            ELSE IF resp.kind = "text_err" THEN Ok("")
            ELSE IF resp.text.blank THEN Ok("")
            ELSE IF resp.text.json = None THEN Ok("")
            ELSE Ok(FirstUrl(resp.text.json[1]))]

(***************************************************************************)
(* main                                                                    *)
(***************************************************************************)
StartVolume(a) == IF a.start = None THEN DefaultStart ELSE a.start[1]

\* a faulty variant: the end of the range is exclusive
FilterVolumesExclusiveEnd(vs, a) ==
    LET keep(v) == /\ v.volume_number >= StartVolume(a)
                   /\ (a.end = None \/ v.volume_number < a.end[1])
    IN  SelectSeq(vs, keep)

FilterVolumes(vs, a) ==
    LET keep(v) == /\ v.volume_number >= StartVolume(a)
                   /\ (a.end = None \/ v.volume_number <= a.end[1])
    IN  SelectSeq(vs, keep)

\* the events the pacing is about, in the order they happen
Ev(e, a, m) == [ev |-> e, author |-> a, ms |-> m]

NoResponse == [kind |-> "none", text |-> NoText]

NoLookup == [requested |-> FALSE, response |-> NoResponse, result |-> Ok(""),
             link |-> ""]

\* the Volume built for record v
Volume(v, wikipedia_link) ==
    [volume_number |-> v.volume_number,
     title |-> v.title,
     author |-> v.author,
     author_wikipedia_link |-> wikipedia_link,
     loa_detail_link |-> v.loa_link,
     original_volume_name |-> v.original_name,
     own_volume |-> ""]

Init ==
    /\ args \in Args
    /\ page \in Docs
    /\ pc = "fetch"
    /\ fetch = None
    /\ html = None
    /\ volumes_data = <<>>
    /\ filtered_volumes = <<>>
    /\ i = 0
    /\ lookup = NoLookup
    /\ sink = [opened |-> FALSE, header |-> FALSE, rows |-> <<>>, flushed |-> FALSE]
    /\ log = <<>>

\* scrape_collection_page(&client).await?
ScrapeCollectionPage ==
    /\ pc = "fetch"
    /\ \E r \in FetchResponses :
         /\ fetch' = Some(r)
         /\ IF r.kind = "body"
            THEN html' = Some(page) /\ pc' = "parse"
            ELSE html' = html /\ pc' = "fatal"
    /\ log' = Append(log, Ev("fetch", "", 0))
    /\ UNCHANGED <<args, page, volumes_data, filtered_volumes, i, lookup, sink>>

\* parse_volumes(&html)?
ParseVolumesStep ==
    /\ pc = "parse"
    /\ volumes_data' = ParseVolumes(html[1])
    /\ pc' = "filter"
    /\ UNCHANGED <<args, page, fetch, html, filtered_volumes, i, lookup, sink, log>>

\* a faulty variant: an empty selection goes on to the writer
FilterStepNoEarlyReturn ==
    /\ pc = "filter"
    /\ filtered_volumes' = FilterVolumes(volumes_data, args)
    /\ pc' = "setup"
    /\ UNCHANGED <<args, page, fetch, html, volumes_data, i, lookup, sink, log>>

\* the range filter and the early return on an empty selection
FilterStep ==
    /\ pc = "filter"
    /\ filtered_volumes' = FilterVolumes(volumes_data, args)
    /\ pc' = IF filtered_volumes' = <<>> THEN "done" ELSE "setup"
    /\ UNCHANGED <<args, page, fetch, html, volumes_data, i, lookup, sink, log>>

\* the output writer: File::create(output_path)? or stdout
SetupWriter ==
    /\ pc = "setup"
    /\ \E created \in BOOLEAN :
         IF args.output # None /\ ~created
         THEN pc' = "fatal" /\ sink' = sink
         ELSE /\ sink' = [sink EXCEPT !.opened = TRUE]
              /\ pc' = IF Len(filtered_volumes) > 0 THEN "pace" ELSE "finish"
    /\ UNCHANGED <<args, page, fetch, html, volumes_data, filtered_volumes, i,
                   lookup, log>>

\* a faulty variant: the long pause follows every tenth record, the last included
NeedsLongPauseAfterTenth(k) == (k + 1) % LongPauseEvery = 0

\* i > 0 && i % 10 == 0
NeedsLongPause(k) == k > 0 /\ k % LongPauseEvery = 0

\* the top of the loop body: the long pause before the record at index i
Pace ==
    /\ pc = "pace"
    /\ log' = IF NeedsLongPause(i) THEN Append(log, Ev("sleep", "", LongPauseMs))
              ELSE log
    /\ pc' = "lookup"
    /\ UNCHANGED <<args, page, fetch, html, volumes_data, filtered_volumes, i,
                   lookup, sink>>

\* get_wikipedia_link(&client, author).await.unwrap_or_default()
Lookup ==
    /\ pc = "lookup"
    /\ \E resp \in LookupResponses :
         LET author == filtered_volumes[i + 1].author
             r == GetWikipediaLink(author, resp)
         IN  /\ lookup' = [requested |-> r.requested,
                           response |-> IF r.requested THEN resp ELSE NoResponse,
                           result |-> r.result,
                           link |-> UnwrapOrDefault(r.result)]
             /\ log' = IF r.requested THEN Append(log, Ev("lookup", author, 0))
                       ELSE log
    /\ pc' = "serialize"
    /\ UNCHANGED <<args, page, fetch, html, volumes_data, filtered_volumes, i, sink>>

\* writer.serialize(&volume)?: the header goes out with the first row
Serialize ==
    /\ pc = "serialize"
    /\ \E written \in BOOLEAN :
         IF written
         THEN /\ sink' = [sink EXCEPT
                            !.header = TRUE,
                            !.rows = Append(@, Volume(filtered_volumes[i + 1],
                                                      lookup.link))]
              /\ log' = Append(log, Ev("write", "", 0))
              /\ pc' = "sleep"
         ELSE sink' = sink /\ log' = log /\ pc' = "fatal"
    /\ UNCHANGED <<args, page, fetch, html, volumes_data, filtered_volumes, i, lookup>>

\* the short sleep that ends the loop body, and the step to the next record
ShortSleep ==
    /\ pc = "sleep"
    /\ log' = Append(log, Ev("sleep", "", ShortPauseMs))
    /\ i' = i + 1
    /\ lookup' = NoLookup
    /\ pc' = IF i + 1 < Len(filtered_volumes) THEN "pace" ELSE "finish"
    /\ UNCHANGED <<args, page, fetch, html, volumes_data, filtered_volumes, sink>>

\* writer.flush()? and the return of main
Finish ==
    /\ pc = "finish"
    /\ \E flushed \in BOOLEAN :
         IF flushed
         THEN sink' = [sink EXCEPT !.flushed = TRUE] /\ pc' = "done"
         ELSE sink' = sink /\ pc' = "fatal"
    /\ UNCHANGED <<args, page, fetch, html, volumes_data, filtered_volumes, i,
                   lookup, log>>

Next ==
    \/ ScrapeCollectionPage
    \/ ParseVolumesStep
    \/ FilterStep
    \/ SetupWriter
    \/ Pace
    \/ Lookup
    \/ Serialize
    \/ ShortSleep
    \/ Finish

Spec == Init /\ [][Next]_vars

(***************************************************************************)
(* Properties.                                                             *)
(***************************************************************************)
Rows == sink.rows

ShortPause == Ev("sleep", "", ShortPauseMs)
LongPause == Ev("sleep", "", LongPauseMs)

Count(e) == Cardinality({p \in 1..Len(log) : log[p] = e})

WritesBefore(p) == Cardinality({k \in 1..(p - 1) : log[k].ev = "write"})

\* C1, as stated: the rows are written in strictly ascending volume-number
\* order, so no volume number is written twice.
C1_StrictlyAscending ==
    \A k \in 1..(Len(Rows) - 1) :
        Rows[k].volume_number < Rows[k + 1].volume_number

\* C1, amended: the rows are written in non-decreasing volume-number order;
\* a volume number the document carries twice is written twice.
C1_NonDecreasing ==
    \A k \in 1..(Len(Rows) - 1) :
        Rows[k].volume_number <= Rows[k + 1].volume_number

\* two rows written from a document that lists its entries out of order
C1_Witness ==
    /\ Len(Rows) >= 2
    /\ html # None
    /\ PushAll(html[1]) # volumes_data

\* the record behind a row: the row without its looked-up link
C2_Same(row, v) ==
    /\ row.volume_number = v.volume_number
    /\ row.title = v.title
    /\ row.author = v.author
    /\ row.loa_detail_link = v.loa_link
    /\ row.original_volume_name = v.original_name
    /\ row.own_volume = ""

C2_InRange(v) ==
    /\ v.volume_number >= (IF args.start = None THEN 1 ELSE args.start[1])
    /\ (args.end # None => v.volume_number <= args.end[1])

\* C2: on a run that completes without a fatal error the rows written are
\* exactly the parsed records within [start, end], each once, in parsed order.
C2_WrittenIsParsedInRange ==
    pc = "done" =>
        LET wanted == SelectSeq(volumes_data, C2_InRange)
        IN  /\ Len(Rows) = Len(wanted)
            /\ \A k \in 1..Len(wanted) : C2_Same(Rows[k], wanted[k])

\* a completed run with an end argument that wrote some of the parsed
\* records and left others out
C2_Witness ==
    /\ pc = "done"
    /\ args.end # None
    /\ Len(Rows) >= 1
    /\ Len(Rows) < Len(volumes_data)

\* C3, as stated: a fetch that ends in a network failure or in a non-success
\* HTTP response is fatal: one fetch, nothing parsed, no lookup, no row.
C3_FailedFetchIsFatal ==
    (fetch # None /\ (fetch[1].kind # "body" \/ fetch[1].status # 200)) =>
        /\ pc = "fatal"
        /\ html = None
        /\ volumes_data = <<>>
        /\ Rows = <<>>
        /\ Count(Ev("fetch", "", 0)) = 1
        /\ \A p \in 1..Len(log) : log[p].ev # "lookup"

\* the link the amended C4 allows for a response: the first element of the
\* array at index 3 of a decoded top-level array, when a non-empty string
C4_Link(resp) ==
    IF /\ resp.kind = "text"
       /\ ~resp.text.blank
       /\ resp.text.json # None
       /\ resp.text.json[1].t = "array"
       /\ Len(resp.text.json[1].a) >= 4
       /\ resp.text.json[1].a[4].t = "array"
       /\ Len(resp.text.json[1].a[4].a) >= 1
       /\ resp.text.json[1].a[4].a[1].t = "string"
    THEN resp.text.json[1].a[4].a[1].s
    ELSE ""

\* C4, as stated: every response that is not a 4-element structure whose
\* 4th element is an array with a non-empty string first element gives "".
C4_OnlyFourElements ==
    (pc = "serialize" /\ lookup.requested) =>
        /\ lookup.result.ok
        /\ (~(/\ lookup.response.kind = "text"
              /\ lookup.response.text.json # None
              /\ lookup.response.text.json[1].t = "array"
              /\ Len(lookup.response.text.json[1].a) = 4
              /\ C4_Link(lookup.response) # "")
            => lookup.result.val = "")

\* C4, amended: get_wikipedia_link never returns an error; it returns the
\* first element of the array at index 3 of the decoded body when that is a
\* non-empty string (the body may hold more than four elements) and ""
\* for every other outcome; the lookup step never aborts the run and leaves
\* the sink alone, so the record is serialized next.
C4_LookupNeverFails ==
    /\ [](pc = "serialize" =>
            /\ lookup.result.ok
            /\ lookup.result.val = (IF lookup.requested THEN C4_Link(lookup.response)
                                    ELSE "")
            /\ lookup.link = lookup.result.val)
    /\ [][pc = "lookup" => (pc' = "serialize" /\ sink' = sink)]_vars

\* a record whose lookup failed was written with an empty link, and the
\* record after it was written too
C4_Witness ==
    /\ Len(Rows) >= 2
    /\ Rows[1].author \notin {"", "Unknown"}
    /\ Rows[1].author_wikipedia_link = ""
    /\ Rows[2].author_wikipedia_link # ""

\* C5: a row with an empty author has an empty link, and no lookup request
\* is issued for an empty or "Unknown" author.
C5_NoLinkWithoutAuthor ==
    /\ \A k \in 1..Len(Rows) :
           Rows[k].author = "" => Rows[k].author_wikipedia_link = ""
    /\ \A p \in 1..Len(log) :
           log[p].ev = "lookup" => log[p].author \notin {"", "Unknown"}
    /\ (pc = "serialize" /\ filtered_volumes[i + 1].author \in {"", "Unknown"})
           => ~lookup.requested

\* a row without an author and a row by "Unknown" have been written
C5_Witness ==
    /\ \E k \in 1..Len(Rows) : Rows[k].author = ""
    /\ \E k \in 1..Len(Rows) : Rows[k].author = "Unknown"

\* C6, as stated: every parsed record and every row has a non-empty title.
C6_TitleNonEmpty ==
    /\ \A k \in 1..Len(volumes_data) : volumes_data[k].title # ""
    /\ \A k \in 1..Len(Rows) : Rows[k].title # ""

\* a fragment parse_volumes looks at: all three elements are there
C7_Complete(el) == el.link # None /\ el.number # None /\ el.title # None

\* a complete fragment whose number is no unsigned integer, or is zero
C7_Discarded(el) == C7_Complete(el) /\ ParseU32OrZero(Trim(el.number[1])) = 0

C7_Kept(el) == C7_Complete(el) /\ ParseU32OrZero(Trim(el.number[1])) > 0

\* C7: no record is emitted for a fragment whose number does not parse or
\* is zero, every emitted and written record has a number >= 1, and the
\* other fragments of the document each get their record.
C7_InvalidNumbersDropped ==
    /\ \A k \in 1..Len(volumes_data) : volumes_data[k].volume_number >= 1
    /\ \A k \in 1..Len(Rows) : Rows[k].volume_number >= 1
    /\ pc = "filter" =>
         LET doc == html[1]
         IN  /\ Len(volumes_data) = Cardinality({k \in 1..Len(doc) : C7_Kept(doc[k])})
             /\ \A k \in 1..Len(doc) :
                  C7_Kept(doc[k]) =>
                    \E j \in 1..Len(volumes_data) :
                        /\ volumes_data[j].volume_number =
                               ParseU32OrZero(Trim(doc[k].number[1]))
                        /\ volumes_data[j].original_name = Trim(doc[k].title[1])

\* a document with a discarded fragment and a kept one has been parsed
C7_Witness ==
    /\ pc = "filter"
    /\ Len(volumes_data) >= 1
    /\ \E k \in 1..Len(html[1]) : C7_Discarded(html[1][k])

\* the text before the first colon, trimmed
C8_Candidate(label) == Trim(SubSeq(label, 1, Find(label, ":")[1] - 1))

C8_Remainder(label) == Trim(From(label, Find(label, ":")[1] + 1))

\* a label with a colon after exactly two capitalised words that hold no
\* denylisted term
C8_TwoWordName(label) ==
    /\ Find(label, ":") # None
    /\ LET words == SplitWhitespace(C8_Candidate(label))
       IN  /\ Len(words) = 2
           /\ StartsUpper(words[1])
           /\ StartsUpper(words[2])
    /\ \A p \in 1..Len(non_author_patterns) :
           ~Contains(C8_Candidate(label), non_author_patterns[p])
    /\ \A p \in 1..Len(two_word_patterns) :
           ~Contains(C8_Candidate(label), two_word_patterns[p])

\* C8, as stated: every such label is split into the candidate as author
\* and the trimmed text after the first colon as title.
C8_TwoWordNameSplits ==
    pc = "filter" =>
        \A k \in 1..Len(volumes_data) :
            LET v == volumes_data[k]
            IN  C8_TwoWordName(v.original_name) =>
                    /\ v.author = C8_Candidate(v.original_name)
                    /\ v.title = C8_Remainder(v.original_name)

\* C8, amended: every such label whose candidate does not start with
\* "The " is split into the candidate as author and the trimmed text after
\* the first colon as title.
C8_TwoWordNameNotTheSplits ==
    pc = "filter" =>
        \A k \in 1..Len(volumes_data) :
            LET v == volumes_data[k]
            IN  (/\ C8_TwoWordName(v.original_name)
                 /\ ~StartsWith(C8_Candidate(v.original_name), "The ")) =>
                    /\ v.author = C8_Candidate(v.original_name)
                    /\ v.title = C8_Remainder(v.original_name)

\* the spec's example has been parsed and split
C8_Witness ==
    /\ pc = "filter"
    /\ \E k \in 1..Len(volumes_data) :
         /\ volumes_data[k].original_name = TwainLabel
         /\ C8_TwoWordName(TwainLabel)
         /\ volumes_data[k].author = "Mark Twain"
         /\ volumes_data[k].title = "The Adventures of Tom Sawyer"

\* C9: when no parsed record is in the range the run ends successfully
\* having opened no destination, written no header or row and issued no
\* lookup.
C9_EmptySelectionWritesNothing ==
    (html # None /\ pc \notin {"parse", "filter"} /\ filtered_volumes = <<>>) =>
        /\ pc = "done"
        /\ ~sink.opened
        /\ ~sink.header
        /\ Rows = <<>>
        /\ \A p \in 1..Len(log) : log[p].ev \notin {"lookup", "write"}

\* a run over a document with records, none of them in the range, is over
C9_Witness ==
    /\ pc = "done"
    /\ volumes_data # <<>>
    /\ filtered_volumes = <<>>
    /\ ~sink.opened

\* the short delay after every row, hence between any two lookup requests
C10_ShortPauses ==
    /\ \A p \in 1..Len(log) :
         (log[p].ev = "write" /\ p < Len(log)) => log[p + 1] = ShortPause
    /\ \A b \in 1..Len(log) :
         log[b].ev = "lookup" =>
           \A a \in 1..(b - 1) :
             log[a].ev = "lookup" => \E c \in (a + 1)..(b - 1) : log[c] = ShortPause
    /\ pc \in {"finish", "done"} => Count(ShortPause) = Len(filtered_volumes)

\* C10, as stated: besides the short delays, a long pause is taken after
\* every tenth record processed, whatever the number of records.
C10_LongPauseAfterEveryTenth ==
    /\ C10_ShortPauses
    /\ pc = "done" => Count(LongPause) = Len(filtered_volumes) \div LongPauseEvery

\* C10, amended: besides the short delays, a long pause is taken before
\* each record whose index is strictly positive and a multiple of ten, that
\* is after every tenth record that another record follows: none after the
\* last record, so n records take (n - 1) \div 10 long pauses.
C10_LongPauseBeforeEveryTenthIndex ==
    /\ C10_ShortPauses
    /\ \A p \in 1..Len(log) :
         log[p] = LongPause =>
           /\ WritesBefore(p) > 0
           /\ WritesBefore(p) % LongPauseEvery = 0
           /\ log[p - 1] = ShortPause
    /\ (pc \in {"finish", "done"} /\ filtered_volumes # <<>>) =>
         Count(LongPause) = (Len(filtered_volumes) - 1) \div LongPauseEvery

\* twenty records were written with one long pause, and two lookups made
C10_Witness ==
    /\ pc = "done"
    /\ Len(Rows) = 2 * LongPauseEvery
    /\ Count(LongPause) = 1
    /\ Cardinality({p \in 1..Len(log) : log[p].ev = "lookup"}) = 2

====
